---- MODULE Spec2Model ----
(***************************************************************************)
(* Model of the playout core of ffplayout:                                 *)
(*   src/src/output/mod.rs        ProcessCleanup, source_generator, player  *)
(*   src/lib/src/filter/custom.rs filter_node                               *)
(*                                                                         *)
(* Spec       : player() running against the decoder subprocesses, the     *)
(*              ingest listener task and the ProcessCleanup guard.         *)
(* GuardSpec  : a caller that calls ProcessCleanup::kill() several times    *)
(*              and then drops the guard.                                  *)
(* FilterSpec : filter_node applied to every text of a bounded set.        *)
(***************************************************************************)
EXTENDS Integers, Sequences, FiniteSets, TLC

\* ---------------------------------------------------------------- bounds
\* items the source iterator yields at most
MaxItems == 2
\* chunks a decoder subprocess outputs at most
MaxChunks == 1
\* chunks the decoder's stdout pipe holds at most
PipeCap == 1
\* chunks waiting in the ingest channel at most (the channel's own capacity is ChanCap)
MaxChan == 2
\* explicit kill() calls of the caller in GuardSpec at most
MaxKills == 3
\* tokens of a filter text at most
MaxLen == 5

\* ------------------------------------------------------ program constants
\* sync_channel(8)
ChanCap == 8
\* process::exit(0x0100)
ExitCodeFatal == 256
\* the width of the exit status the operating system reports (8 bits)
ExitStatusRange == 256

\* no exit() was called
NoExit == -1
\* the source tag of an ingest chunk written to the encoder's input; a decoder
\* chunk carries the number of its item
Ingest == 0
\* nothing was written
NoWrite == -1
\* no decoder was killed by a live edge
NoItem == 0

VARIABLES
    mode,              \* config.processing.mode
    pc,                \* position of player
    exitCode,          \* value given to process::exit, NoExit if none
    endReason,         \* why the item loop ended
    encState,          \* encoder subprocess
    is_terminated,     \* Arc<Mutex<bool>>
    server_term,       \* Arc<Mutex<Option<Terminator>>>: TRUE is Some
    server_is_running, \* Arc<Mutex<bool>>
    init_playlist,     \* Arc<Mutex<bool>>
    lstate,            \* ingest listener task
    chan,              \* chunks in the ingest channel
    guard,             \* ProcessCleanup value: "none", "live", "dropped"
    is_alive,          \* ProcessCleanup.is_alive
    kpc,               \* position inside ProcessCleanup::kill
    killCalls,         \* calls of kill() so far
    termCalls,         \* calls of server.terminate() so far
    firstSlot,         \* server_term as the first kill() found it
    klog,              \* results of enc_proc.kill() and enc_proc.wait() of the last kill()
    live_on,           \* player's live_on
    cur,               \* items the iterator has yielded so far
    node,              \* the item being processed
    dec_cmd,           \* argument vector of the last decoder spawned
    decState,          \* decoder subprocess of the current item
    decLeft,           \* chunks the current decoder has still to output
    pipe,              \* chunks in the current decoder's stdout pipe
    dec_bytes_len,     \* result of the last dec_reader.read
    wrote,             \* source of the chunk the last step of player wrote to the
                       \* encoder's input, NoWrite if it wrote none
    killed,            \* the item whose decoder the last live edge killed, NoItem if none
    edgeOps,           \* what the current iteration did on the edge to live ingest, in
                       \* the order done: <<operation, result>> pairs
    held,              \* the locks that were held while the last subprocess or
                       \* blocking call was made
    ftext,             \* filter_node: argument
    fpc,               \* filter_node: "in" before the call, "out" after
    fvideo,            \* filter_node: returned video_filter
    faudio,            \* filter_node: returned audio_filter
    flog               \* filter_node: error! lines logged

playerVars == <<mode, pc, exitCode, endReason, live_on, cur, node, dec_cmd,
                decState, decLeft, pipe, dec_bytes_len, wrote, killed, init_playlist,
                edgeOps>>
procVars == <<encState, guard>>
killVars == <<is_terminated, is_alive, kpc, killCalls, termCalls, firstSlot, klog>>
listenerVars == <<server_term, server_is_running, lstate, chan>>
filterVars == <<ftext, fpc, fvideo, faudio, flog>>
lockVars == <<held>>
vars == <<playerVars, procVars, killVars, listenerVars, filterVars, lockVars>>

Modes == {"folder", "playlist", "other"}
OutModes == {"desktop", "stream", "other"}
Media == [cmd : BOOLEAN, process : BOOLEAN, filter : {1, 2}]
NoNode == [cmd |-> FALSE, process |-> FALSE, filter |-> 1]

\* the 8-bit exit status the operating system reports for exit(code)
ExitStatus(code) == code % ExitStatusRange

\* ------------------------------------------------------------ initial state
FilterIdle ==
    /\ ftext = <<>>
    /\ fpc = "idle"
    /\ fvideo = <<>>
    /\ faudio = <<>>
    /\ flog = 0

\* the state at the entry of player: nothing spawned, every flag as constructed
Fresh ==
    /\ exitCode = NoExit
    /\ endReason = "none"
    /\ encState = "none"
    /\ is_terminated = FALSE
    /\ server_term = FALSE
    /\ server_is_running = FALSE
    /\ init_playlist = FALSE
    /\ lstate = "off"
    /\ chan = 0
    /\ guard = "none"
    /\ is_alive = FALSE
    /\ kpc = "idle"
    /\ killCalls = 0
    /\ termCalls = 0
    /\ firstSlot = "unset"
    /\ klog = [kill |-> "none", wait |-> "none"]
    /\ live_on = FALSE
    /\ cur = 0
    /\ node = NoNode
    /\ dec_cmd = <<>>
    /\ decState = "none"
    /\ decLeft = 0
    /\ pipe = 0
    /\ dec_bytes_len = 0
    /\ wrote = NoWrite
    /\ killed = NoItem
    /\ edgeOps = <<>>
    /\ held = {}

Init ==
    /\ mode \in Modes
    /\ pc = "start"
    /\ Fresh
    /\ FilterIdle

\* ------------------------------------------------------- source_generator
\* folder mode with a missing path and an unknown mode call process::exit(0x0100)
SourceGenerator ==
    /\ pc = "start"
    /\ \E exists \in BOOLEAN :
         IF (mode = "folder" /\ ~exists) \/ mode \notin {"folder", "playlist"}
         THEN /\ exitCode' = ExitCodeFatal
              /\ endReason' = "config_fatal"
              /\ pc' = "exited"
         ELSE /\ pc' = "output"
              /\ UNCHANGED <<exitCode, endReason>>
    /\ UNCHANGED <<mode, edgeOps, live_on, cur, node, dec_cmd, decState, decLeft, pipe,
                   dec_bytes_len, wrote, killed, init_playlist>>
    /\ UNCHANGED <<procVars, killVars, listenerVars, filterVars>>
    /\ UNCHANGED lockVars

\* ------------------------------------------------------------------ player
\* the encoder is spawned by desktop::output or stream::output; any other
\* output mode panics, before the guard exists
SpawnEncoder ==
    /\ pc = "output"
    /\ \E out \in OutModes :
         IF out \in {"desktop", "stream"}
         THEN /\ encState' = "running"
              /\ pc' = "setup"
              /\ UNCHANGED endReason
         ELSE /\ endReason' = "panic_output"
              /\ pc' = "panicked"
              /\ UNCHANGED encState
    /\ UNCHANGED <<mode, edgeOps, exitCode, live_on, cur, node, dec_cmd, decState, decLeft, pipe,
                   dec_bytes_len, wrote, killed, init_playlist>>
    /\ UNCHANGED <<guard, killVars, listenerVars, filterVars>>
    /\ UNCHANGED lockVars

\* the ingest listener task is spawned when config.ingest.enable, then the
\* guard is constructed with is_alive = true
Setup ==
    /\ pc = "setup"
    /\ \E enable \in BOOLEAN : lstate' = IF enable THEN "spawned" ELSE "off"
    /\ guard' = "live"
    /\ is_alive' = TRUE
    /\ pc' = "iter"
    /\ UNCHANGED <<mode, edgeOps, exitCode, endReason, live_on, cur, node, dec_cmd, decState,
                   decLeft, pipe, dec_bytes_len, wrote, killed, init_playlist>>
    /\ UNCHANGED <<encState, is_terminated, kpc, killCalls, termCalls, firstSlot, klog>>
    /\ UNCHANGED <<server_term, server_is_running, chan, filterVars>>
    /\ UNCHANGED lockVars

\* for node in get_source: the iterator yields a node or ends
TakeItem ==
    /\ pc = "iter"
    /\ \/ /\ cur < MaxItems
          /\ \E n \in Media : node' = n
          /\ cur' = cur + 1
          /\ pc' = "node"
          /\ UNCHANGED endReason
       \/ /\ endReason' = "exhausted"
          /\ pc' = "sleep"
          /\ UNCHANGED <<cur, node>>
    /\ UNCHANGED <<mode, edgeOps, exitCode, live_on, dec_cmd, decState, decLeft, pipe,
                   dec_bytes_len, wrote, killed, init_playlist>>
    /\ UNCHANGED <<procVars, killVars, listenerVars, filterVars>>
    /\ UNCHANGED lockVars

\* CheckItem with the process flag not looked at
CheckItemIgnoresProcess ==
    /\ pc = "node"
    /\ IF ~node.cmd
       THEN /\ endReason' = "sentinel"
            /\ pc' = "sleep"
       ELSE /\ pc' = "spawn"
            /\ UNCHANGED endReason
    /\ UNCHANGED <<mode, edgeOps, exitCode, live_on, cur, node, dec_cmd, decState, decLeft, pipe,
                   dec_bytes_len, wrote, killed, init_playlist>>
    /\ UNCHANGED <<procVars, killVars, listenerVars, filterVars>>
    /\ UNCHANGED lockVars

\* cmd None breaks the item loop; a false process flag continues with the next item
CheckItem ==
    /\ pc = "node"
    /\ IF ~node.cmd
       THEN /\ endReason' = "sentinel"
            /\ pc' = "sleep"
       ELSE /\ pc' = IF ~node.process THEN "iter" ELSE "spawn"
            /\ UNCHANGED endReason
    /\ UNCHANGED <<mode, edgeOps, exitCode, live_on, cur, node, dec_cmd, decState, decLeft, pipe,
                   dec_bytes_len, wrote, killed, init_playlist>>
    /\ UNCHANGED <<procVars, killVars, listenerVars, filterVars>>
    /\ UNCHANGED lockVars

\* the decoder's argument vector: the filter only when it has more than one token
DecCmd(n) ==
    <<"flags", "cmd">> \o (IF n.filter > 1 THEN <<"filter">> ELSE <<>>) \o <<"settings">>

\* Command::new("ffmpeg").spawn(): a failure panics, which unwinds through the guard
SpawnDecoder ==
    /\ pc = "spawn"
    /\ dec_cmd' = DecCmd(node)
    /\ \/ /\ decState' = "running"
          /\ \E n \in 0..MaxChunks : decLeft' = n
          /\ pipe' = 0
          /\ pc' = "loop"
          /\ UNCHANGED endReason
       \/ /\ endReason' = "panic_spawn"
          /\ pc' = "unwind"
          /\ UNCHANGED <<decState, decLeft, pipe>>
    /\ UNCHANGED <<mode, edgeOps, exitCode, live_on, cur, node, dec_bytes_len, wrote, killed,
                   init_playlist>>
    /\ UNCHANGED <<procVars, killVars, listenerVars, filterVars>>
    /\ UNCHANGED lockVars

\* CheckFlag with the branch chosen by live_on, not by the shared flag
CheckFlagUsesState ==
    /\ pc = "loop"
    /\ pc' = IF live_on THEN "live" ELSE "sched"
    /\ wrote' = NoWrite
    /\ edgeOps' = <<>>
    /\ UNCHANGED <<mode, exitCode, endReason, live_on, cur, node, dec_cmd, decState,
                   decLeft, pipe, dec_bytes_len, killed, init_playlist>>
    /\ UNCHANGED <<procVars, killVars, listenerVars, filterVars>>
    /\ UNCHANGED lockVars

\* the start of an iteration of the inner loop: if *server_is_running.lock().unwrap()
CheckFlag ==
    /\ pc = "loop"
    /\ pc' = IF server_is_running THEN "live" ELSE "sched"
    /\ wrote' = NoWrite
    /\ edgeOps' = <<>>
    /\ UNCHANGED <<mode, exitCode, endReason, live_on, cur, node, dec_cmd, decState,
                   decLeft, pipe, dec_bytes_len, killed, init_playlist>>
    /\ UNCHANGED <<procVars, killVars, listenerVars, filterVars>>
    /\ UNCHANGED lockVars

\* the result of wait() on a subprocess that has ended: Ok reaps it; Err means
\* the operating system has no such child any more
WaitResult(st) ==
    CASE st = "reaped" -> {"reaped"}
      [] st = "gone" -> {"gone"}
      [] OTHER -> {"reaped", "gone"}

\* the results of a call that can fail
Results == {"ok", "err"}

\* what the edge to live ingest does, in the order of the code, with the
\* results of the three calls
EdgeOps(flush, kill, wait) ==
    <<(<<"flush", flush>>), (<<"kill", kill>>), (<<"wait", wait>>),
      (<<"live_on", "set">>), (<<"init_playlist", "set">>)>>

\* SwitchToLive with the edge done in every iteration of a live session
SwitchToLiveRepeats ==
    /\ pc = "live"
    /\ \E st \in WaitResult(decState), flush \in Results, kill \in Results :
         /\ decState' = st
         /\ edgeOps' = EdgeOps(flush, kill, IF st = "gone" THEN "err" ELSE "ok")
    /\ killed' = cur
    /\ live_on' = TRUE
    /\ init_playlist' = TRUE
    /\ pc' = "recv"
    /\ UNCHANGED <<mode, exitCode, endReason, cur, node, dec_cmd, decLeft, pipe,
                   dec_bytes_len, wrote>>
    /\ UNCHANGED <<procVars, killVars, listenerVars, filterVars>>
    /\ held' = {}

\* if !live_on: flush, kill the decoder, wait on it, live_on = true,
\* init_playlist = true; errors of the three calls are logged only
SwitchToLive ==
    /\ pc = "live"
    /\ IF ~live_on
       THEN /\ \E st \in WaitResult(decState), flush \in Results, kill \in Results :
                 /\ decState' = st
                 /\ edgeOps' = EdgeOps(flush, kill, IF st = "gone" THEN "err" ELSE "ok")
            /\ killed' = cur
            /\ live_on' = TRUE
            /\ init_playlist' = TRUE
       ELSE UNCHANGED <<decState, killed, live_on, init_playlist, edgeOps>>
    /\ pc' = "recv"
    /\ UNCHANGED <<mode, exitCode, endReason, cur, node, dec_cmd, decLeft, pipe,
                   dec_bytes_len, wrote>>
    /\ UNCHANGED <<procVars, killVars, listenerVars, filterVars>>
    /\ held' = {}

\* IngestRecv with the decoder read of the same iteration made after the
\* ingest chunk is written
IngestRecvThenReads ==
    /\ pc = "recv"
    /\ IF chan > 0
       THEN /\ chan' = chan - 1
            /\ \/ /\ wrote' = Ingest
                  /\ pc' = "read"
                  /\ UNCHANGED endReason
               \/ /\ endReason' = "write_err_live"
                  /\ pc' = "sleep"
                  /\ UNCHANGED wrote
       ELSE /\ pc' = "loop"
            /\ UNCHANGED <<chan, wrote, endReason>>
    /\ UNCHANGED <<mode, edgeOps, exitCode, live_on, cur, node, dec_cmd, decState, decLeft,
                   pipe, dec_bytes_len, killed, init_playlist>>
    /\ UNCHANGED <<procVars, killVars, filterVars>>
    /\ UNCHANGED <<server_term, server_is_running, lstate>>
    /\ held' = {}

\* IngestRecv with a receive that blocks until the channel has a chunk
IngestRecvBlocks ==
    /\ pc = "recv"
    /\ chan > 0
    /\ chan' = chan - 1
    /\ \/ /\ wrote' = Ingest
          /\ pc' = "loop"
          /\ UNCHANGED endReason
       \/ /\ endReason' = "write_err_live"
          /\ pc' = "sleep"
          /\ UNCHANGED wrote
    /\ UNCHANGED <<mode, edgeOps, exitCode, live_on, cur, node, dec_cmd, decState, decLeft,
                   pipe, dec_bytes_len, killed, init_playlist>>
    /\ UNCHANGED <<procVars, killVars, filterVars>>
    /\ UNCHANGED <<server_term, server_is_running, lstate>>
    /\ held' = {}

\* ingest_receiver.try_recv() and the write of the chunk; a write error
\* breaks 'source_iter
IngestRecv ==
    /\ pc = "recv"
    /\ IF chan > 0
       THEN /\ chan' = chan - 1
            /\ \/ /\ wrote' = Ingest
                  /\ pc' = "loop"
                  /\ UNCHANGED endReason
               \/ /\ endReason' = "write_err_live"
                  /\ pc' = "sleep"
                  /\ UNCHANGED wrote
       ELSE /\ pc' = "loop"
            /\ UNCHANGED <<chan, wrote, endReason>>
    /\ UNCHANGED <<mode, edgeOps, exitCode, live_on, cur, node, dec_cmd, decState, decLeft, pipe,
                   dec_bytes_len, killed, init_playlist>>
    /\ UNCHANGED <<procVars, killVars, filterVars>>
    /\ UNCHANGED <<server_term, server_is_running, lstate>>
    /\ held' = {}

\* SwitchToScheduled with the guard of the server_is_running lock kept over
\* the branch, so that the flush is made with the lock held
SwitchToScheduledHoldsLock ==
    /\ pc = "sched"
    /\ live_on' = FALSE
    /\ pc' = "read"
    /\ UNCHANGED <<mode, edgeOps, exitCode, endReason, cur, node, dec_cmd, decState, decLeft,
                   pipe, dec_bytes_len, wrote, killed, init_playlist>>
    /\ UNCHANGED <<procVars, killVars, listenerVars, filterVars>>
    /\ held' = IF live_on THEN {"server_is_running"} ELSE {}

\* SwitchToScheduled with live_on left as it is
SwitchToScheduledKeepsLive ==
    /\ pc = "sched"
    /\ pc' = "read"
    /\ UNCHANGED <<mode, edgeOps, exitCode, endReason, live_on, cur, node, dec_cmd, decState,
                   decLeft, pipe, dec_bytes_len, wrote, killed, init_playlist>>
    /\ UNCHANGED <<procVars, killVars, listenerVars, filterVars>>
    /\ held' = {}

\* if live_on: flush, live_on = false
SwitchToScheduled ==
    /\ pc = "sched"
    /\ live_on' = FALSE
    /\ pc' = "read"
    /\ UNCHANGED <<mode, edgeOps, exitCode, endReason, cur, node, dec_cmd, decState, decLeft, pipe,
                   dec_bytes_len, wrote, killed, init_playlist>>
    /\ UNCHANGED <<procVars, killVars, listenerVars, filterVars>>
    /\ held' = {}

\* DecRead with a read error that breaks the inner loop only
DecReadErrBreaksInner ==
    /\ pc = "read"
    /\ \/ /\ pipe > 0
          /\ pipe' = pipe - 1
          /\ dec_bytes_len' = 1
          /\ pc' = "write"
          /\ UNCHANGED endReason
       \/ /\ pipe = 0
          /\ decState # "running"
          /\ dec_bytes_len' = 0
          /\ pc' = "write"
          /\ UNCHANGED <<pipe, endReason>>
       \/ /\ endReason' = "read_err"
          /\ pc' = "after_loop"
          /\ UNCHANGED <<pipe, dec_bytes_len>>
    /\ UNCHANGED <<mode, edgeOps, exitCode, live_on, cur, node, dec_cmd, decState, decLeft,
                   wrote, killed, init_playlist>>
    /\ UNCHANGED <<procVars, killVars, listenerVars, filterVars>>
    /\ held' = {}

\* dec_reader.read(&mut buffer[..]): a chunk of the pipe, zero bytes at end of
\* file (pipe empty and the decoder ended), or an error that breaks 'source_iter;
\* with the pipe empty and the decoder alive the read blocks
DecRead ==
    /\ pc = "read"
    /\ \/ /\ pipe > 0
          /\ pipe' = pipe - 1
          /\ dec_bytes_len' = 1
          /\ pc' = "write"
          /\ UNCHANGED endReason
       \/ /\ pipe = 0
          /\ decState # "running"
          /\ dec_bytes_len' = 0
          /\ pc' = "write"
          /\ UNCHANGED <<pipe, endReason>>
       \/ /\ endReason' = "read_err"
          /\ pc' = "sleep"
          /\ UNCHANGED <<pipe, dec_bytes_len>>
    /\ UNCHANGED <<mode, edgeOps, exitCode, live_on, cur, node, dec_cmd, decState, decLeft,
                   wrote, killed, init_playlist>>
    /\ UNCHANGED <<procVars, killVars, listenerVars, filterVars>>
    /\ held' = {}

\* DecWrite with a write error that breaks the inner loop only
DecWriteBreaksInner ==
    /\ pc = "write"
    /\ IF dec_bytes_len > 0
       THEN \/ /\ wrote' = cur
               /\ pc' = "loop"
               /\ UNCHANGED endReason
            \/ /\ endReason' = "write_err_sched"
               /\ pc' = "after_loop"
               /\ UNCHANGED wrote
       ELSE /\ pc' = "after_loop"
            /\ UNCHANGED <<wrote, endReason>>
    /\ UNCHANGED <<mode, edgeOps, exitCode, live_on, cur, node, dec_cmd, decState, decLeft, pipe,
                   dec_bytes_len, killed, init_playlist>>
    /\ UNCHANGED <<procVars, killVars, listenerVars, filterVars>>
    /\ held' = {}

\* DecWrite with a zero-byte read that breaks 'source_iter
DecWriteZeroEndsRun ==
    /\ pc = "write"
    /\ IF dec_bytes_len > 0
       THEN \/ /\ wrote' = cur
               /\ pc' = "loop"
               /\ UNCHANGED endReason
            \/ /\ endReason' = "write_err_sched"
               /\ pc' = "sleep"
               /\ UNCHANGED wrote
       ELSE /\ pc' = "sleep"
            /\ endReason' = "read_err"
            /\ UNCHANGED wrote
    /\ UNCHANGED <<mode, edgeOps, exitCode, live_on, cur, node, dec_cmd, decState, decLeft, pipe,
                   dec_bytes_len, killed, init_playlist>>
    /\ UNCHANGED <<procVars, killVars, listenerVars, filterVars>>
    /\ held' = {}

\* if dec_bytes_len > 0 { write, an error breaks 'source_iter } else { break }
DecWrite ==
    /\ pc = "write"
    /\ IF dec_bytes_len > 0
       THEN \/ /\ wrote' = cur
               /\ pc' = "loop"
               /\ UNCHANGED endReason
            \/ /\ endReason' = "write_err_sched"
               /\ pc' = "sleep"
               /\ UNCHANGED wrote
       ELSE /\ pc' = "after_loop"
            /\ UNCHANGED <<wrote, endReason>>
    /\ UNCHANGED <<mode, edgeOps, exitCode, live_on, cur, node, dec_cmd, decState, decLeft, pipe,
                   dec_bytes_len, killed, init_playlist>>
    /\ UNCHANGED <<procVars, killVars, listenerVars, filterVars>>
    /\ held' = {}

\* if let Err(e) = dec_proc.wait() { panic! }: blocks until the decoder has ended
WaitDecoder ==
    /\ pc = "after_loop"
    /\ decState # "running"
    /\ \E st \in WaitResult(decState) :
         /\ decState' = st
         /\ IF st = "gone"
            THEN /\ endReason' = "panic_wait"
                 /\ pc' = "unwind"
            ELSE /\ pc' = "iter"
                 /\ UNCHANGED endReason
    /\ UNCHANGED <<mode, edgeOps, exitCode, live_on, cur, node, dec_cmd, decLeft, pipe,
                   dec_bytes_len, wrote, killed, init_playlist>>
    /\ UNCHANGED <<procVars, killVars, listenerVars, filterVars>>
    /\ held' = {}

\* sleep(1 s); proc_cleanup.kill()
Cleanup ==
    /\ pc = "sleep"
    /\ kpc = "idle"
    /\ kpc' = "set_term"
    /\ killCalls' = killCalls + 1
    /\ pc' = "kill_explicit"
    /\ UNCHANGED <<mode, edgeOps, exitCode, endReason, live_on, cur, node, dec_cmd, decState,
                   decLeft, pipe, dec_bytes_len, wrote, killed, init_playlist>>
    /\ UNCHANGED <<procVars, is_terminated, is_alive, termCalls, firstSlot, klog>>
    /\ UNCHANGED <<listenerVars, filterVars>>
    /\ UNCHANGED lockVars

\* the explicit kill() has returned and player returns: the guard leaves scope
Return ==
    /\ pc = "kill_explicit"
    /\ kpc = "ret"
    /\ kpc' = "idle"
    /\ pc' = "drop"
    /\ UNCHANGED <<mode, edgeOps, exitCode, endReason, live_on, cur, node, dec_cmd, decState,
                   decLeft, pipe, dec_bytes_len, wrote, killed, init_playlist>>
    /\ UNCHANGED <<procVars, is_terminated, is_alive, killCalls, termCalls, firstSlot,
                   klog>>
    /\ UNCHANGED <<listenerVars, filterVars>>
    /\ UNCHANGED lockVars

\* Drop for ProcessCleanup: self.kill(), on return and on panic unwinding
Drop ==
    /\ pc \in {"drop", "unwind"}
    /\ kpc = "idle"
    /\ kpc' = "set_term"
    /\ killCalls' = killCalls + 1
    /\ pc' = "kill_drop"
    /\ UNCHANGED <<mode, edgeOps, exitCode, endReason, live_on, cur, node, dec_cmd, decState,
                   decLeft, pipe, dec_bytes_len, wrote, killed, init_playlist>>
    /\ UNCHANGED <<procVars, is_terminated, is_alive, termCalls, firstSlot, klog>>
    /\ UNCHANGED <<listenerVars, filterVars>>
    /\ UNCHANGED lockVars

\* the kill() run by Drop has returned: the guard is gone
Dropped ==
    /\ pc = "kill_drop"
    /\ kpc = "ret"
    /\ kpc' = "idle"
    /\ guard' = "dropped"
    /\ pc' = IF endReason \in {"panic_spawn", "panic_wait"} THEN "panicked" ELSE "done"
    /\ UNCHANGED <<mode, edgeOps, exitCode, endReason, live_on, cur, node, dec_cmd, decState,
                   decLeft, pipe, dec_bytes_len, wrote, killed, init_playlist>>
    /\ UNCHANGED <<encState, is_terminated, is_alive, killCalls, termCalls, firstSlot,
                   klog>>
    /\ UNCHANGED <<listenerVars, filterVars>>
    /\ UNCHANGED lockVars

\* ------------------------------------------------------ ProcessCleanup::kill
\* *self.is_terminated.lock().unwrap() = true
KillSetTerminated ==
    /\ kpc = "set_term"
    /\ is_terminated' = TRUE
    /\ kpc' = "ingest"
    /\ UNCHANGED <<playerVars, procVars, is_alive, killCalls, termCalls, firstSlot, klog>>
    /\ UNCHANGED <<listenerVars, filterVars>>
    /\ UNCHANGED lockVars

\* KillIngest with is_alive left true
KillIngestKeepsAlive ==
    /\ kpc = "ingest"
    /\ IF is_alive
       THEN /\ IF server_term
               THEN /\ termCalls' = termCalls + 1
                    /\ lstate' = IF lstate = "listening" THEN "stopped" ELSE lstate
               ELSE UNCHANGED <<termCalls, lstate>>
            /\ firstSlot' = IF server_term THEN "some" ELSE "none"
            /\ held' = IF server_term THEN {"server_term"} ELSE held
            /\ UNCHANGED is_alive
       ELSE UNCHANGED <<termCalls, lstate, firstSlot, is_alive, held>>
    /\ kpc' = "enc_kill"
    /\ UNCHANGED <<playerVars, procVars, is_terminated, killCalls, klog>>
    /\ UNCHANGED <<server_term, server_is_running, chan, filterVars>>

\* KillIngest with the stop handle invoked whatever is_alive is
KillIngestUnguarded ==
    /\ kpc = "ingest"
    /\ IF server_term
       THEN /\ termCalls' = termCalls + 1
            /\ lstate' = IF lstate = "listening" THEN "stopped" ELSE lstate
            /\ held' = {"server_term"}
       ELSE UNCHANGED <<termCalls, lstate, held>>
    /\ firstSlot' = IF is_alive THEN (IF server_term THEN "some" ELSE "none") ELSE firstSlot
    /\ is_alive' = FALSE
    /\ kpc' = "enc_kill"
    /\ UNCHANGED <<playerVars, procVars, is_terminated, killCalls, klog>>
    /\ UNCHANGED <<server_term, server_is_running, chan, filterVars>>

\* if self.is_alive { if let Some(server) = &*self.server_term.lock().unwrap()
\* { server.terminate() }; self.is_alive = false }: terminate() ends a
\* listening server and fails on one that has ended by itself; the guard of the
\* server_term lock is a temporary of the if-let and lives until its end, so
\* terminate() is called with the lock held
KillIngest ==
    /\ kpc = "ingest"
    /\ IF is_alive
       THEN /\ IF server_term
               THEN /\ termCalls' = termCalls + 1
                    /\ lstate' = IF lstate = "listening" THEN "stopped" ELSE lstate
                    /\ held' = {"server_term"}
               ELSE UNCHANGED <<termCalls, lstate, held>>
            /\ firstSlot' = IF server_term THEN "some" ELSE "none"
            /\ is_alive' = FALSE
       ELSE UNCHANGED <<termCalls, lstate, firstSlot, is_alive, held>>
    /\ kpc' = "enc_kill"
    /\ UNCHANGED <<playerVars, procVars, is_terminated, killCalls, klog>>
    /\ UNCHANGED <<server_term, server_is_running, chan, filterVars>>

\* the results enc_proc.kill() can give: Ok on a child not yet reaped; on a
\* reaped one Ok or Err, as the standard library version has it
KillResult(st) == IF st \in {"reaped", "gone"} THEN {"ok", "err"} ELSE {"ok"}

\* KillEncoder with kill() returning at once when enc_proc.kill() fails
KillEncoderReturnsOnError ==
    /\ kpc = "enc_kill"
    /\ \E r \in KillResult(encState) :
         /\ klog' = [klog EXCEPT !.kill = r]
         /\ kpc' = IF r = "err" THEN "ret" ELSE "enc_wait"
    /\ encState' = IF encState = "running" THEN "exited" ELSE encState
    /\ UNCHANGED <<playerVars, guard, is_terminated, is_alive, killCalls, termCalls,
                   firstSlot>>
    /\ UNCHANGED <<listenerVars, filterVars>>
    /\ held' = {}

\* if let Ok(_) = self.enc_proc.kill() { info! }
KillEncoder ==
    /\ kpc = "enc_kill"
    /\ \E r \in KillResult(encState) : klog' = [klog EXCEPT !.kill = r]
    /\ encState' = IF encState = "running" THEN "exited" ELSE encState
    /\ kpc' = "enc_wait"
    /\ UNCHANGED <<playerVars, guard, is_terminated, is_alive, killCalls, termCalls,
                   firstSlot>>
    /\ UNCHANGED <<listenerVars, filterVars>>
    /\ held' = {}

\* if let Err(e) = self.enc_proc.wait() { error! }: logged, kill() returns
KillWaitEncoder ==
    /\ kpc = "enc_wait"
    /\ \E st \in WaitResult(encState) :
         /\ encState' = st
         /\ klog' = [klog EXCEPT !.wait = IF st = "gone" THEN "err" ELSE "ok"]
    /\ kpc' = "ret"
    /\ UNCHANGED <<playerVars, guard, is_terminated, is_alive, killCalls, termCalls,
                   firstSlot>>
    /\ UNCHANGED <<listenerVars, filterVars>>
    /\ held' = {}

\* -------------------------------------------------------- decoder subprocess
\* the decoder writes a chunk to its stdout pipe
DecProduce ==
    /\ decState = "running"
    /\ decLeft > 0
    /\ pipe < PipeCap
    /\ decLeft' = decLeft - 1
    /\ pipe' = pipe + 1
    /\ UNCHANGED <<mode, edgeOps, pc, exitCode, endReason, live_on, cur, node, dec_cmd, decState,
                   dec_bytes_len, wrote, killed, init_playlist>>
    /\ UNCHANGED <<procVars, killVars, listenerVars, filterVars>>
    /\ UNCHANGED lockVars

\* the decoder has written all its output and exits
DecExit ==
    /\ decState = "running"
    /\ decLeft = 0
    /\ decState' = "exited"
    /\ UNCHANGED <<mode, edgeOps, pc, exitCode, endReason, live_on, cur, node, dec_cmd, decLeft,
                   pipe, dec_bytes_len, wrote, killed, init_playlist>>
    /\ UNCHANGED <<procVars, killVars, listenerVars, filterVars>>
    /\ UNCHANGED lockVars

\* ------------------------------------------------------ ingest listener task
\* the task starts: it stops at once when termination is requested, else it
\* spawns the ingest server
ListenerStart ==
    /\ lstate = "spawned"
    /\ lstate' = IF is_terminated THEN "stopped" ELSE "starting"
    /\ UNCHANGED <<playerVars, procVars, killVars, filterVars>>
    /\ UNCHANGED <<server_term, server_is_running, chan>>
    /\ UNCHANGED lockVars

\* the started listener stores its stop handle in the shared slot
ListenerStoreHandle ==
    /\ lstate = "starting"
    /\ server_term' = TRUE
    /\ lstate' = "listening"
    /\ UNCHANGED <<playerVars, procVars, killVars, filterVars>>
    /\ UNCHANGED <<server_is_running, chan>>
    /\ UNCHANGED lockVars

\* a live stream arrives: the listener flips the running flag to true
ListenerFlipOn ==
    /\ lstate = "listening"
    /\ ~server_is_running
    /\ server_is_running' = TRUE
    /\ UNCHANGED <<playerVars, procVars, killVars, filterVars>>
    /\ UNCHANGED <<server_term, lstate, chan>>
    /\ UNCHANGED lockVars

\* the listener sends a chunk into the bounded channel
ListenerSend ==
    /\ lstate = "listening"
    /\ server_is_running
    /\ chan < ChanCap
    /\ chan < MaxChan
    /\ chan' = chan + 1
    /\ UNCHANGED <<playerVars, procVars, killVars, filterVars>>
    /\ UNCHANGED <<server_term, server_is_running, lstate>>
    /\ UNCHANGED lockVars

\* the live stream ends: the listener flips the running flag back
ListenerFlipOff ==
    /\ lstate = "listening"
    /\ server_is_running
    /\ server_is_running' = FALSE
    /\ UNCHANGED <<playerVars, procVars, killVars, filterVars>>
    /\ UNCHANGED <<server_term, lstate, chan>>
    /\ UNCHANGED lockVars

\* the ingest server ends by itself while no stream is live
ListenerExits ==
    /\ lstate = "listening"
    /\ ~server_is_running
    /\ lstate' = "exited"
    /\ UNCHANGED <<playerVars, procVars, killVars, filterVars>>
    /\ UNCHANGED <<server_term, server_is_running, chan>>
    /\ UNCHANGED lockVars

\* --------------------------------------------------------------- player run
Player ==
    \/ SourceGenerator
    \/ SpawnEncoder
    \/ Setup
    \/ TakeItem
    \/ CheckItem
    \/ SpawnDecoder
    \/ CheckFlag
    \/ SwitchToLive
    \/ IngestRecv
    \/ SwitchToScheduled
    \/ DecRead
    \/ DecWrite
    \/ WaitDecoder
    \/ Cleanup
    \/ Return
    \/ Drop
    \/ Dropped

Kill ==
    \/ KillSetTerminated
    \/ KillIngest
    \/ KillEncoder
    \/ KillWaitEncoder

Decoder ==
    \/ DecProduce
    \/ DecExit

Listener ==
    \/ ListenerStart
    \/ ListenerStoreHandle
    \/ ListenerFlipOn
    \/ ListenerSend
    \/ ListenerFlipOff
    \/ ListenerExits

Next ==
    \/ Player
    \/ Kill
    \/ Decoder
    \/ Listener

Spec == Init /\ [][Next]_vars

\* the steps of the inner loop that make no blocking read: the check of the
\* flag, the two edges and the receive from the ingest channel
LoopStep ==
    \/ CheckFlag
    \/ SwitchToLive
    \/ IngestRecv
    \/ SwitchToScheduled

\* the run with the thread of player scheduled fairly
LiveSpec == Spec /\ WF_vars(LoopStep)

\* ------------------------------------------- a caller of ProcessCleanup::kill
\* the guard as ProcessCleanup::new leaves it, the encoder running and the
\* ingest listener spawned or not
GuardInit ==
    /\ mode \in {"folder", "playlist"}
    /\ pc = "caller"
    /\ exitCode = NoExit
    /\ endReason = "none"
    /\ encState = "running"
    /\ is_terminated = FALSE
    /\ server_term = FALSE
    /\ server_is_running = FALSE
    /\ init_playlist = FALSE
    /\ lstate \in {"off", "spawned"}
    /\ chan = 0
    /\ guard = "live"
    /\ is_alive = TRUE
    /\ kpc = "idle"
    /\ killCalls = 0
    /\ termCalls = 0
    /\ firstSlot = "unset"
    /\ klog = [kill |-> "none", wait |-> "none"]
    /\ live_on = FALSE
    /\ cur = 0
    /\ node = NoNode
    /\ dec_cmd = <<>>
    /\ decState = "none"
    /\ decLeft = 0
    /\ pipe = 0
    /\ dec_bytes_len = 0
    /\ wrote = NoWrite
    /\ killed = NoItem
    /\ edgeOps = <<>>
    /\ held = {}
    /\ FilterIdle

\* the caller calls kill() explicitly
CallKill ==
    /\ pc = "caller"
    /\ kpc = "idle"
    /\ killCalls < MaxKills
    /\ kpc' = "set_term"
    /\ killCalls' = killCalls + 1
    /\ UNCHANGED <<playerVars, procVars, is_terminated, is_alive, termCalls, firstSlot,
                   klog>>
    /\ UNCHANGED <<listenerVars, filterVars>>
    /\ UNCHANGED lockVars

\* kill() returns to the caller
KillReturns ==
    /\ pc = "caller"
    /\ kpc = "ret"
    /\ kpc' = "idle"
    /\ UNCHANGED <<playerVars, procVars, is_terminated, is_alive, killCalls, termCalls,
                   firstSlot, klog>>
    /\ UNCHANGED <<listenerVars, filterVars>>
    /\ UNCHANGED lockVars

\* the caller lets the guard leave scope
CallerDrops ==
    /\ pc = "caller"
    /\ kpc = "idle"
    /\ pc' = "drop"
    /\ UNCHANGED <<mode, edgeOps, exitCode, endReason, live_on, cur, node, dec_cmd, decState,
                   decLeft, pipe, dec_bytes_len, wrote, killed, init_playlist>>
    /\ UNCHANGED <<procVars, killVars, listenerVars, filterVars>>
    /\ UNCHANGED lockVars

GuardNext ==
    \/ CallKill
    \/ KillReturns
    \/ CallerDrops
    \/ Drop
    \/ Dropped
    \/ Kill
    \/ ListenerStart
    \/ ListenerStoreHandle
    \/ ListenerExits

GuardSpec == GuardInit /\ [][GuardNext]_vars

\* --------------------------------------------------------------- filter_node
\* A filter text is a sequence of tokens: a link label "[..]" (one bracket
\* pair, no bracket inside), a ";", a run of filter characters "f" free of
\* brackets and ";", or the character "~".
VOut == "[c_v_out]"
AOut == "[c_a_out]"
VIn == "[v_in]"
Sentinel == <<"~">>
Labels == {VOut, AOut, VIn, "[l]"}
Tok == Labels \cup {";", "f", "~"}
Texts == UNION {[1..n -> Tok] : n \in 0..MaxLen}

\* str::contains
Contains(t, m) == \E i \in 1..Len(t) : t[i] = m

\* str::find: the position of the first occurrence
Find(t, m) == CHOOSE i \in 1..Len(t) : t[i] = m /\ \A j \in 1..(i - 1) : t[j] # m

\* str::split_once: the text before and after the first occurrence
SplitOnce(t, m) == <<SubSeq(t, 1, Find(t, m) - 1), SubSeq(t, Find(t, m) + 1, Len(t))>>

\* the end of the match of ^;?(\[[^\[]+\])? at the start of the text
LeadEnd(t) ==
    LET semi == IF Len(t) > 0 /\ t[1] = ";" THEN 1 ELSE 0
    IN IF Len(t) > semi /\ t[semi + 1] \in Labels THEN semi + 1 ELSE semi

\* re.replace_all(text, ""): the match at the start is removed, then a match of
\* \[[^\[]+\]$ in what follows it
ReplaceAll(t) ==
    LET rest == SubSeq(t, LeadEnd(t) + 1, Len(t))
    IN IF Len(rest) > 0 /\ rest[Len(rest)] \in Labels
       THEN SubSeq(rest, 1, Len(rest) - 1)
       ELSE rest

\* SplitChains with the video-out marker always taken as the delimiter
SplitChainsVideoFirst(filter) ==
    IF Contains(filter, VOut) /\ Contains(filter, AOut)
    THEN LET f_1 == SplitOnce(filter, VOut)[1]
             f_2 == SplitOnce(filter, VOut)[2]
         IN IF Contains(f_2, AOut)
            THEN [video |-> ReplaceAll(f_1), audio |-> ReplaceAll(f_2), log |-> 0]
            ELSE [video |-> ReplaceAll(f_2), audio |-> ReplaceAll(f_1), log |-> 0]
    ELSE IF Contains(filter, VOut)
    THEN [video |-> ReplaceAll(filter), audio |-> <<>>, log |-> 0]
    ELSE IF Contains(filter, AOut)
    THEN [video |-> <<>>, audio |-> ReplaceAll(filter), log |-> 0]
    ELSE IF filter # <<>> /\ filter # Sentinel
    THEN [video |-> <<>>, audio |-> <<>>, log |-> 1]
    ELSE [video |-> <<>>, audio |-> <<>>, log |-> 0]

\* the branches of filter_node before the "[v_in]" step: the two chains and the
\* number of error! lines
SplitChains(filter) ==
    IF Contains(filter, VOut) /\ Contains(filter, AOut)
    THEN LET delimiter == IF Find(filter, VOut) > Find(filter, AOut) THEN AOut ELSE VOut
             f_1 == SplitOnce(filter, delimiter)[1]
             f_2 == SplitOnce(filter, delimiter)[2]
         IN IF Contains(f_2, AOut)
            THEN [video |-> ReplaceAll(f_1), audio |-> ReplaceAll(f_2), log |-> 0]
            ELSE [video |-> ReplaceAll(f_2), audio |-> ReplaceAll(f_1), log |-> 0]
    ELSE IF Contains(filter, VOut)
    THEN [video |-> ReplaceAll(filter), audio |-> <<>>, log |-> 0]
    ELSE IF Contains(filter, AOut)
    THEN [video |-> <<>>, audio |-> ReplaceAll(filter), log |-> 0]
    ELSE IF filter # <<>> /\ filter # Sentinel
    THEN [video |-> <<>>, audio |-> <<>>, log |-> 1]
    ELSE [video |-> <<>>, audio |-> <<>>, log |-> 0]

\* str::starts_with("[v_in]")
StartsWithVIn(t) == Len(t) > 0 /\ t[1] = VIn

\* filter_node with "[v_in]" put before the video chain whenever the text
\* contains it
filter_node_contains(filter) ==
    LET r == SplitChains(filter)
    IN [r EXCEPT !.video = IF Contains(filter, VIn) THEN <<VIn>> \o @ ELSE @]

\* filter_node: the branches, then "[v_in]" put before the video chain when
\* the text starts with it
filter_node(filter) ==
    LET r == SplitChains(filter)
    IN [r EXCEPT !.video = IF StartsWithVIn(filter) THEN <<VIn>> \o @ ELSE @]

FilterInit ==
    /\ mode = "playlist"
    /\ pc = "filter"
    /\ Fresh
    /\ ftext \in Texts
    /\ fpc = "in"
    /\ fvideo = <<>>
    /\ faudio = <<>>
    /\ flog = 0

\* one call of filter_node on the text
FilterNode ==
    /\ fpc = "in"
    /\ fvideo' = filter_node(ftext).video
    /\ faudio' = filter_node(ftext).audio
    /\ flog' = filter_node(ftext).log
    /\ fpc' = "out"
    /\ UNCHANGED <<ftext, playerVars, procVars, killVars, listenerVars>>
    /\ UNCHANGED lockVars

FilterNext == FilterNode

FilterSpec == FilterInit /\ [][FilterNext]_vars

\* ==================================================================== claims

\* ------------------------------------------------------------------------ C1
\* C1 (as claimed): once the live edge has killed and waited on the decoder of
\* an item, no chunk of that item's decoder is written to the encoder's input
\* any more: what is written until the flag flips back is ingest data, and what
\* is written after it comes from the decoder of a later item.
C1_NoByteOfKilledDecoder == wrote # NoWrite /\ wrote # Ingest => wrote # killed

\* ------------------------------------------------------------------------ C2
ListenerRunning == lstate \in {"starting", "listening"}
EncoderWaited == encState \in {"reaped", "gone"}

\* C2 (as claimed): once the guard has gone out of scope the encoder has been
\* killed and waited on and the ingest listener is not running, for every
\* interleaving of kill() with the listener task storing its stop handle.
C2_NothingLeftRunning == guard = "dropped" => EncoderWaited /\ ~ListenerRunning

\* ------------------------------------------------------------------------ C3
\* calls of kill() that have returned
KillsReturned == IF kpc \in {"idle", "ret"} THEN killCalls ELSE killCalls - 1

\* C3 (as claimed): after N > 1 calls of kill() (the call made by Drop counted)
\* the ingest-stop handle has been invoked exactly once, the encoder has been
\* waited on and no error has reached the caller.
C3_ExactlyOneStop ==
    KillsReturned > 1 => termCalls = 1 /\ EncoderWaited /\ endReason = "none"

\* C3 (amended): over any number of calls of kill() the ingest-stop handle is
\* invoked exactly once when the first kill() finds a handle in server_term and
\* never when it finds none; after every call that has returned the encoder has
\* been waited on and is_alive is false; no error reaches the caller, whatever
\* enc_proc.kill() and enc_proc.wait() returned.
C3_StopOnceIffHandle ==
    /\ firstSlot = "unset" => termCalls = 0
    /\ firstSlot = "some" => termCalls = 1
    /\ firstSlot = "none" => termCalls = 0
    /\ KillsReturned > 0 => EncoderWaited /\ ~is_alive /\ firstSlot # "unset"
    /\ endReason = "none"
    /\ pc \in {"caller", "drop", "kill_drop", "done"}

\* three calls and the drop have returned, one stop was invoked, and the last
\* enc_proc.kill() returned an error
C3_Witness ==
    /\ guard = "dropped"
    /\ killCalls > 3
    /\ termCalls = 1
    /\ klog.kill = "err"

\* ------------------------------------------------------------------------ C4
WriteErrors == {"write_err_live", "write_err_sched"}

\* C4 (as claimed): after a write error to the encoder's input, when player
\* has returned and the guard is dropped, the termination sequence has run once.
C4_CleanupOnce == pc = "done" /\ endReason \in WriteErrors => killCalls = 1

\* C4 (amended): a write error on the encoder's input, in either state, ends
\* the run: player goes on to the sleep and the cleanup only, so no item is
\* taken and no decoder is spawned any more; kill() then runs twice, first by
\* the explicit call and then by Drop, and the ingest-stop handle is invoked at
\* most once over the two.
C4_WriteErrorEndsRun ==
    endReason \in WriteErrors =>
        /\ pc \in {"sleep", "kill_explicit", "drop", "kill_drop", "done"}
        /\ pc = "sleep" => killCalls = 0
        /\ pc \in {"kill_explicit", "drop"} => killCalls = 1
        /\ pc \in {"kill_drop", "done"} => killCalls = 2
        /\ termCalls <= 1

\* player has returned after a write error of an ingest chunk
C4_Witness == pc = "done" /\ endReason = "write_err_live" /\ killCalls = 2

\* ------------------------------------------------------------------------ C5
\* C5 (as claimed): for every item whose process flag is false, with or
\* without a decode command, the step that handles the item spawns no decoder,
\* writes nothing and goes on to take the next item.
C5_SkipAnyUnprocessed ==
    [][pc = "node" /\ pc' # "node" /\ ~node.process =>
          pc' = "iter" /\ UNCHANGED <<decState, dec_cmd, wrote>>]_vars

\* C5 (amended): for every item whose process flag is false and whose decode
\* command is present, whatever its filter list, the step that handles the
\* item spawns no decoder, writes nothing and goes on to take the next item; an
\* item without decode command ends the run instead. A decoder is spawned only
\* for an item with a decode command and a true process flag.
C5_SkipUnprocessed ==
    /\ [][pc = "node" /\ pc' # "node" /\ node.cmd /\ ~node.process =>
             pc' = "iter" /\ UNCHANGED <<decState, dec_cmd, wrote>>]_vars
    /\ [][pc = "node" /\ pc' # "node" /\ ~node.cmd =>
             pc' = "sleep" /\ endReason' = "sentinel"
             /\ UNCHANGED <<decState, dec_cmd, wrote>>]_vars
    /\ [](pc = "spawn" => node.cmd /\ node.process)

\* the second item is being taken after the first one was skipped
C5_Witness ==
    /\ pc = "node"
    /\ cur = 2
    /\ decState = "none"
    /\ dec_cmd = <<>>

\* ------------------------------------------------------------------------ C6
\* C6 (as claimed): after a zero-byte read the inner loop is left, the decoder
\* is waited on and the loop takes the next item; the run is not ended.
C6_ZeroReadNextItem ==
    [][pc = "after_loop" /\ pc' # pc => pc' = "iter" /\ endReason' = "none"]_vars

\* C6 (amended): a zero-byte read writes nothing and leaves the inner loop of
\* the current item without ending the run; the decoder is then waited on, and
\* when that wait succeeds the loop takes the next item, while a wait error
\* makes player panic.
C6_ZeroReadEndsItem ==
    /\ [][pc = "write" /\ dec_bytes_len = 0 /\ pc' # pc =>
             pc' = "after_loop" /\ endReason' = "none" /\ wrote' = NoWrite]_vars
    /\ [][pc = "after_loop" /\ pc' # pc =>
             \/ decState' = "reaped" /\ pc' = "iter" /\ endReason' = "none"
             \/ decState' = "gone" /\ pc' = "unwind" /\ endReason' = "panic_wait"]_vars
    /\ [](pc = "after_loop" => dec_bytes_len = 0 /\ wrote = NoWrite)

\* the second item is taken after the first one's decoder read zero bytes and
\* was waited on
C6_Witness ==
    /\ pc = "node"
    /\ cur = 2
    /\ decState = "reaped"
    /\ dec_bytes_len = 0
    /\ endReason = "none"

\* ------------------------------------------------------------------------ C7
\* C7 (as claimed): when source_generator has met a fatal configuration error
\* the process has exited with a non-zero status, with neither the encoder nor
\* the ingest listener spawned.
C7_NonZeroStatus ==
    pc = "exited" =>
        /\ ExitStatus(exitCode) # 0
        /\ encState = "none"
        /\ lstate = "off"

\* ------------------------------------------------------------------------ C8
Count(t, m) == Cardinality({i \in 1..Len(t) : t[i] = m})
NoMarker(t) == ~Contains(t, VOut) /\ ~Contains(t, AOut)
\* the other output marker
Other(m) == IF m = VOut THEN AOut ELSE VOut
\* the part of the text that precedes the first occurrence of marker m, from
\* the text's start or from the last occurrence of the other marker before it
Part(t, m) ==
    LET i == Find(t, m)
        before == {j \in 1..(i - 1) : t[j] = Other(m)}
        from == IF before = {} THEN 1 ELSE (CHOOSE j \in before : \A k \in before : k <= j) + 1
    IN SubSeq(t, from, i - 1)
\* a text without its leading ";" and link label
StripLead(t) == SubSeq(t, LeadEnd(t) + 1, Len(t))
\* a text without its leading ";" and link label and without its closing link label
StripBoth(t) ==
    LET r == StripLead(t)
    IN IF Len(r) > 0 /\ r[Len(r)] \in Labels THEN SubSeq(r, 1, Len(r) - 1) ELSE r
\* "[v_in]" when the text begins with it
VInPrefix(t) == IF StartsWithVIn(t) THEN <<VIn>> ELSE <<>>

\* C8 (as claimed): for every text that contains both markers, any number of
\* times, the video chain is the (label-stripped) part that precedes the
\* video-out marker, the audio chain the part that precedes the audio-out
\* marker, and neither chain contains a marker.
C8_SplitAnyText ==
    fpc = "out" /\ Contains(ftext, VOut) /\ Contains(ftext, AOut) =>
        /\ fvideo = VInPrefix(ftext) \o StripBoth(Part(ftext, VOut))
        /\ faudio = StripBoth(Part(ftext, AOut))
        /\ NoMarker(fvideo)
        /\ NoMarker(faudio)

\* each marker occurs once and the later one ends the text
OneEachClosing(t) ==
    /\ Count(t, VOut) = 1
    /\ Count(t, AOut) = 1
    /\ t[Len(t)] \in {VOut, AOut}
\* the chain of marker m in such a text: the part before the first marker loses
\* the link labels at both its ends, the part between the markers its leading one
Chain(t, m) ==
    IF Find(t, m) < Find(t, Other(m)) THEN StripBoth(Part(t, m)) ELSE StripLead(Part(t, m))

\* C8 (amended): for every text in which each of the two markers occurs
\* exactly once and the later of them ends the text, in either order, the video
\* chain is the part that precedes the video-out marker and the audio chain the
\* part that precedes the audio-out marker (for the later marker: the part
\* between the two), each without its leading ";" and link label, the part
\* before the first marker also without its closing link label, and "[v_in]"
\* put back before the video chain when the text begins with it; neither chain
\* contains a marker.
C8_SplitWellFormed ==
    fpc = "out" /\ OneEachClosing(ftext) =>
        /\ fvideo = VInPrefix(ftext) \o Chain(ftext, VOut)
        /\ faudio = Chain(ftext, AOut)
        /\ NoMarker(fvideo)
        /\ NoMarker(faudio)

\* the audio part comes first and both chains are non-empty
C8_Witness ==
    /\ fpc = "out"
    /\ OneEachClosing(ftext)
    /\ Find(ftext, AOut) < Find(ftext, VOut)
    /\ fvideo # <<>>
    /\ faudio # <<>>

\* ------------------------------------------------------------------------ C9
\* C9 (as claimed): a text with neither marker yields two empty chains, with
\* one error line logged when it is non-empty and not the sentinel, and none
\* for the empty text and the sentinel.
C9_NeitherMarker ==
    fpc = "out" /\ NoMarker(ftext) =>
        /\ fvideo = <<>>
        /\ faudio = <<>>
        /\ flog = IF ftext = <<>> \/ ftext = Sentinel THEN 0 ELSE 1

\* ----------------------------------------------------------------------- C10
\* C10 (as claimed): for a text that begins with "[v_in]" the returned video
\* chain begins with exactly one "[v_in]"; for any other text the video chain
\* is the label-stripped chain, nothing prepended.
C10_ExactlyOneVIn ==
    fpc = "out" =>
        IF StartsWithVIn(ftext)
        THEN /\ Len(fvideo) > 0
             /\ fvideo[1] = VIn
             /\ Len(fvideo) > 1 => fvideo[2] # VIn
        ELSE fvideo = SplitChains(ftext).video

\* C10 (amended): for a text that begins with "[v_in]" the returned video chain
\* is "[v_in]" followed by the label-stripped chain of the branch taken, so it
\* begins with "[v_in]" and exactly one "[v_in]" was prepended (the chain may
\* itself begin with a second one, as for "[v_in][v_in]f[c_v_out]"); for any
\* other text the video chain is the label-stripped chain, nothing prepended.
C10_VInPrepended ==
    fpc = "out" =>
        IF StartsWithVIn(ftext)
        THEN /\ fvideo = <<VIn>> \o SplitChains(ftext).video
             /\ fvideo[1] = VIn
             /\ Len(fvideo) = Len(SplitChains(ftext).video) + 1
        ELSE fvideo = SplitChains(ftext).video

\* a text that begins with "[v_in]", has both markers with the audio part
\* first, and yields a video chain of more than the marker
C10_Witness ==
    /\ fpc = "out"
    /\ StartsWithVIn(ftext)
    /\ Contains(ftext, VOut)
    /\ Contains(ftext, AOut)
    /\ Find(ftext, AOut) < Find(ftext, VOut)
    /\ Len(fvideo) > 1

\* ----------------------------------------------------------------------- C11
\* a step of player that reads from the decoder's output
ReadsDecoder == pc = "read" /\ pc' = "write"
\* a step of player that writes decoder bytes to the encoder's input
WritesDecoder == pc = "write" /\ pc' = "loop"

\* C11 (as claimed): no step of player taken while the ingest-running flag is
\* true reads from the decoder's output or writes decoder bytes to the
\* encoder's input, also when the flag flips between the check and the read.
C11_NoDecoderBytesWhileFlag ==
    [][server_is_running => ~ReadsDecoder /\ ~WritesDecoder]_vars

\* C11 (amended): the branch of an iteration is fixed by the value of the flag
\* at the iteration's check; an iteration that observed the flag true neither
\* reads from the decoder nor writes decoder bytes, and every decoder read and
\* write is made in an iteration that observed it false, in state
\* SCHEDULED_PLAYBACK. A flip after the check takes effect at the next check.
C11_NoDecoderBytesInLiveIteration ==
    /\ [][pc = "loop" /\ pc' # pc =>
             pc' = IF server_is_running THEN "live" ELSE "sched"]_vars
    /\ [][(pc \in {"live", "recv"}) =>
             (/\ pipe' >= pipe
              /\ dec_bytes_len' = dec_bytes_len
              /\ wrote' \in {wrote, Ingest}
              /\ pc' \notin {"read", "write"})]_vars
    /\ [][pipe' < pipe \/ dec_bytes_len' # dec_bytes_len => ReadsDecoder]_vars
    /\ [][wrote' # wrote /\ wrote' \notin {NoWrite, Ingest} => WritesDecoder]_vars
    /\ [](pc \in {"read", "write"} => ~live_on)

\* the flag flipped to true after the check and a chunk was read from the decoder
C11_Witness ==
    /\ pc = "write"
    /\ dec_bytes_len > 0
    /\ server_is_running
    /\ ~live_on

\* ----------------------------------------------------------------------- C12
\* the operations of an edge in the order claimed
EdgeOrder == <<"flush", "kill", "wait", "live_on", "init_playlist">>
\* the operations of a log, without their results
OpsOf(log) == [i \in 1..Len(log) |-> log[i][1]]

\* C12: in the iteration that observes the flag true while live_on is false
\* the loop does, in this order and once, flush, kill, wait, live_on = true,
\* init_playlist = true, whatever results the three calls give, and goes on to
\* the receive without ending the run; an iteration that observes the flag
\* true while live_on is true does none of them; an ingest chunk is received
\* and written only after them, with live_on true and the decoder of the
\* current item killed and waited on.
C12_EdgeOncePerSession ==
    /\ [][pc = "live" /\ pc' # pc =>
             /\ pc' = "recv"
             /\ endReason' = endReason
             /\ IF ~live_on
                THEN /\ OpsOf(edgeOps') = EdgeOrder
                     /\ live_on'
                     /\ init_playlist'
                     /\ killed' = cur
                     /\ decState' = IF edgeOps'[3][2] = "err" THEN "gone" ELSE "reaped"
                ELSE /\ edgeOps' = <<>>
                     /\ UNCHANGED <<live_on, init_playlist, killed, decState>>
                ]_vars
    /\ [][edgeOps' # edgeOps /\ edgeOps' # <<>> => pc = "live" /\ ~live_on]_vars
    /\ [](pc = "recv" => live_on /\ killed = cur /\ decState \in {"reaped", "gone"})
    /\ [][chan' < chan \/ (wrote' = Ingest /\ wrote # Ingest) => pc = "recv"]_vars

\* the edge was done with the flush, the kill and the wait all failing, and
\* the first ingest chunk of the session is about to be received
C12_Witness ==
    /\ pc = "recv"
    /\ edgeOps = EdgeOps("err", "err", "err")
    /\ chan > 0
    /\ endReason = "none"

\* ----------------------------------------------------------------------- C13
\* a step of player that takes a chunk from the ingest channel
TakesIngest == pc = "recv" /\ chan' < chan
\* a step of player that writes to the encoder's input
WritesEncoder == (TakesIngest /\ pc' = "loop") \/ WritesDecoder

\* C13: an iteration of the inner loop makes at most one write to the
\* encoder's input: a write is made only when the iteration has written
\* nothing yet and it ends the iteration; an ingest chunk is written only in an
\* iteration that observed the flag true, in state LIVE_INGEST, and decoder
\* bytes only in one that observed it false, in state SCHEDULED_PLAYBACK; a
\* step takes at most one chunk from the ingest channel, and only the receive
\* of a live iteration takes one.
C13_OneWritePerIteration ==
    /\ [][WritesEncoder =>
             /\ wrote = NoWrite
             /\ wrote' = IF pc = "recv" THEN Ingest ELSE cur
             /\ live_on = (pc = "recv")
             /\ pc' = "loop"]_vars
    /\ [][wrote' # wrote => WritesEncoder \/ (pc = "loop" /\ wrote' = NoWrite)]_vars
    /\ [][chan' < chan => TakesIngest /\ chan' = chan - 1 /\ live_on]_vars
    /\ [](wrote # NoWrite => pc = "loop")
    /\ [](pc \in {"live", "recv", "sched", "read", "write"} => wrote = NoWrite)

\* an ingest chunk was written in this iteration and a second one waits in
\* the channel for a later iteration
C13_Witness ==
    /\ pc = "loop"
    /\ wrote = Ingest
    /\ chan > 0
    /\ live_on

\* ----------------------------------------------------------------------- C14
\* C14: over any sequence of calls of kill() on one guard, the explicit ones
\* and the one made by Drop, the ingest-stop handle is invoked at most once;
\* it is invoked only by a kill() that finds is_alive true and a handle in the
\* slot; the guarded step of every kill() leaves is_alive false, with or
\* without a handle and whether or not the invocation ended a listener, and
\* is_alive never becomes true again.
C14_StopAtMostOnce ==
    /\ [](termCalls <= 1)
    /\ [][termCalls' # termCalls =>
             /\ kpc = "ingest"
             /\ is_alive
             /\ server_term
             /\ termCalls' = termCalls + 1]_vars
    /\ [][kpc = "ingest" /\ kpc' # kpc => ~is_alive']_vars
    /\ [][~is_alive => ~is_alive']_vars
    /\ [](KillsReturned > 0 => ~is_alive)

\* the handle was invoked once, on a listener that had ended by itself, and
\* two more calls of kill() and the drop have returned
C14_Witness ==
    /\ guard = "dropped"
    /\ killCalls > 2
    /\ termCalls = 1
    /\ lstate = "exited"
    /\ server_term

\* ----------------------------------------------------------------------- C15
\* C15: every call of kill(), whatever is_alive is and whatever the earlier
\* calls met, goes through the same steps in the same order: it sets the
\* termination-requested flag to true, does the guarded ingest-stop step
\* (which leaves the encoder alone), attempts enc_proc.kill(), then waits on
\* the encoder, and returns; an error of the kill or of the wait is recorded
\* only: the wait follows a failed kill, the return follows a failed wait, and
\* nothing reaches the caller as an error or a panic.
C15_KillSequence ==
    /\ [][kpc' # kpc =>
             \/ kpc = "idle" /\ kpc' = "set_term"
             \/ kpc = "set_term" /\ kpc' = "ingest" /\ is_terminated'
             \/ kpc = "ingest" /\ kpc' = "enc_kill" /\ UNCHANGED <<encState, klog>>
             \/ /\ kpc = "enc_kill"
                /\ kpc' = "enc_wait"
                /\ klog'.kill \in Results
                /\ encState' # "running"
             \/ /\ kpc = "enc_wait"
                /\ kpc' = "ret"
                /\ encState' \in {"reaped", "gone"}
                /\ klog'.wait = IF encState' = "gone" THEN "err" ELSE "ok"
             \/ kpc = "ret" /\ kpc' = "idle"
             ]_vars
    /\ [][encState' # encState => kpc \in {"enc_kill", "enc_wait"}]_vars
    /\ []((kpc \in {"ingest", "enc_kill", "enc_wait", "ret"}) => is_terminated)
    /\ [](endReason = "none" /\ pc \notin {"unwind", "panicked"})

\* a call of kill() that started with is_alive false is about to return with
\* both its enc_proc.kill() and its enc_proc.wait() failed
C15_Witness ==
    /\ kpc = "ret"
    /\ killCalls > 1
    /\ klog = [kill |-> "err", wait |-> "err"]
    /\ encState = "gone"

\* ----------------------------------------------------------------------- C16
\* the positions of player from the end of the item loop to its return
CleanupPcs == {"sleep", "kill_explicit", "drop", "kill_drop", "done"}
\* the wait made on the edge to live ingest in this iteration failed
EdgeWaitFailed == edgeOps # <<>> /\ edgeOps[3][2] = "err"

\* C16 (as claimed): a read error from the decoder, a failed wait on the edge
\* to live ingest and a failed wait after the inner loop each end the run:
\* player goes to its cleanup and returns, and never panics on them.
C16_ErrorsEndRunCleanly ==
    /\ endReason = "read_err" => pc \in CleanupPcs
    /\ EdgeWaitFailed => pc \in CleanupPcs
    /\ endReason # "panic_wait"

\* C16 (amended): a read error from the decoder breaks out of the whole run:
\* player goes to its cleanup, kill() runs twice (explicit call, then Drop)
\* and player returns without a panic. A failed wait on the edge to live
\* ingest is logged only: the run goes on with the receive of the live
\* session. A failed wait after the inner loop makes player panic; the guard's
\* cleanup then runs once, by Drop while the panic unwinds, and player does not
\* return normally.
C16_ErrorPaths ==
    /\ [](endReason = "read_err" => pc \in CleanupPcs)
    /\ [](pc = "done" => guard = "dropped" /\ killCalls = 2 /\ EncoderWaited)
    /\ [](EdgeWaitFailed =>
             /\ decState = "gone"
             /\ pc \in {"recv", "loop"} \/ endReason = "write_err_live")
    /\ [][pc = "live" /\ pc' # pc => pc' = "recv" /\ endReason' = endReason]_vars
    /\ [][pc = "after_loop" /\ pc' # pc /\ decState' = "gone" =>
             pc' = "unwind" /\ endReason' = "panic_wait"]_vars
    /\ [](endReason = "panic_wait" =>
             pc \in {"unwind", "kill_drop", "panicked"} /\ decState = "gone")
    /\ [](pc = "panicked" /\ endReason = "panic_wait" =>
             guard = "dropped" /\ killCalls = 1 /\ EncoderWaited)

\* player has returned after a read error from the decoder of the second item
C16_Witness ==
    /\ pc = "done"
    /\ endReason = "read_err"
    /\ cur = 2
    /\ guard = "dropped"

\* ----------------------------------------------------------------------- C17
\* C17: in LIVE_INGEST the receive never waits for a chunk: with the channel
\* empty it writes nothing and the loop goes back to the check of the flag.
\* With the thread of player scheduled fairly, from every state in LIVE_INGEST
\* the loop comes to the edge back to SCHEDULED_PLAYBACK (live_on false),
\* unless the flag is true again at some later instant or a write of an ingest
\* chunk fails; no chunk has to arrive for it.
C17_LiveEndsWithoutIngest ==
    /\ [][pc = "recv" /\ chan = 0 /\ pc' # pc =>
             pc' = "loop" /\ wrote' = NoWrite /\ UNCHANGED chan]_vars
    /\ [][live_on /\ ~live_on' => pc = "sched" /\ pc' = "read" /\ ~wrote' = Ingest]_vars
    /\ (live_on ~> (~live_on \/ server_is_running \/ endReason \in WriteErrors))

\* the edge back to SCHEDULED_PLAYBACK was done in the item whose decoder the
\* live edge killed, with the ingest channel empty
C17_Witness ==
    /\ pc = "read"
    /\ ~live_on
    /\ killed = cur
    /\ ~server_is_running
    /\ chan = 0

\* ----------------------------------------------------------------------- C18
\* C18 (as claimed): no subprocess or blocking call of player or of kill() is
\* made with a lock on a shared flag or handle held.
C18_NoLockAcrossCalls == held = {}

\* C18 (amended): the decoder read, the encoder writes and flushes and the
\* kills and waits of the decoder and of the encoder are made with no lock
\* held; the one call made under a lock is server.terminate() in kill(), made
\* with the lock of the ingest-stop handle slot held, which is released before
\* enc_proc.kill() is called.
C18_OnlyTerminateUnderLock ==
    /\ [](held \subseteq {"server_term"})
    /\ [](held # {} => kpc = "enc_kill" /\ termCalls = 1 /\ ~is_alive)
    /\ [][termCalls' # termCalls => held' = {"server_term"}]_vars
    /\ [][held' # held =>
             \/ kpc = "ingest" /\ termCalls' # termCalls
             \/ kpc = "enc_kill" /\ kpc' = "enc_wait" /\ held' = {}]_vars
    /\ []((pc \in {"recv", "read", "write", "after_loop", "loop"}) => held = {})

\* the explicit kill() of player has just invoked the stop handle of a
\* listening server
C18_Witness ==
    /\ held = {"server_term"}
    /\ pc = "kill_explicit"
    /\ kpc = "enc_kill"
    /\ lstate = "stopped"

\* ----------------------------------------------------------------------- C19
\* the positions of player inside the inner loop
InnerPcs == {"loop", "live", "recv", "sched", "read", "write"}

\* C19: a decoder is spawned only in state SCHEDULED_PLAYBACK (live_on false),
\* whatever the flag is at that moment; between two items live_on is false;
\* the inner loop is left with live_on true only by the break that ends the
\* run on a failed write of an ingest chunk.
C19_SpawnInScheduled ==
    /\ []((pc \in {"iter", "node", "spawn", "after_loop"}) => ~live_on)
    /\ [][decState' = "running" /\ decState # "running" =>
             pc = "spawn" /\ ~live_on /\ ~live_on']_vars
    /\ [](live_on => pc \in InnerPcs \/ endReason = "write_err_live")
    /\ [][(pc \in InnerPcs) /\ (pc' \notin InnerPcs) /\ live_on =>
             pc = "recv" /\ pc' = "sleep" /\ endReason' = "write_err_live"]_vars

\* the decoder of the second item was spawned after a live session in the
\* first item, while the flag is true again
C19_Witness ==
    /\ pc = "loop"
    /\ cur = 2
    /\ killed = 1
    /\ decState = "running"
    /\ server_is_running
    /\ ~live_on

\* ----------------------------------------------------------------------- C20
\* the decoder of the current item, if one was spawned, has been waited on
DecoderWaited == decState \in {"none", "reaped", "gone"}

\* C20 (as claimed): when player has returned, on any of the paths that end
\* the run, the decoder it spawned last has been waited on, as every decoder
\* before it: none is left running or as a zombie.
C20_DecodersWaited == pc = "done" => DecoderWaited

====
